---- MODULE Spec2Model ----
(***************************************************************************)
(* Model of demos/common/cpp/utils/src/images_capture.cpp: the four frame  *)
(* readers (ImreadWrapper, DirReader, VideoCapWrapper, CameraCapWrapper)   *)
(* and the resolver openImagesCapture that probes them in order.           *)
(*                                                                         *)
(* The imaging library is an opaque collaborator: what a probe finds on    *)
(* disk or on a device (file present, image decodable, directory listing,  *)
(* video length, seek honoured, camera opens, capture succeeds, reported   *)
(* frame rate) is drawn nondeterministically where the code asks for it.   *)
(* A frame is identified by a positive number (the file name of a          *)
(* directory entry, position + 1 of a video frame, ...); Empty is cv::Mat{}*)
(***************************************************************************)
EXTENDS Integers, Sequences, FiniteSets, TLC

\* ---- bounds of the model ------------------------------------------------
MaxFiles == 4
MaxInitialImageId == 2
MaxReadLengthLimit == 3
MaxFrames == 3
MaxReads == 5

\* ---- program constants --------------------------------------------------
Empty == 0
DefaultFps == 30
ImreadFps == 1
DirFps == 1
\* std::numeric_limits<size_t>::max(), scaled to the largest integer TLC holds.
SizeMax == 2147483647

Thrown == -1

FileNames == 1..MaxFiles
Images == {1, 2}
Rates == {-1, 0, 25}

Kinds == <<"IMAGE", "DIR", "VIDEO", "CAMERA">>

VARIABLES
    pc,                 \* position of the caller: "call", a probe, "raise", "opened", "failed"
    loop,               \* argument loop / ImagesCapture::loop
    initialImageId,     \* argument initialImageId / the readers' member
    readLengthLimitArg, \* argument readLengthLimit of openImagesCapture
    probed,             \* the constructors run so far, in order: [kind, res]
    invalidInputs,      \* messages of the InvalidInput exceptions caught
    openErrors,         \* messages of the OpenError exceptions caught
    thrown,             \* what the last call threw: "none", "config", "aggregate", "capture"
    errorsInfo,         \* messages carried by the aggregate failure
    reader,             \* getType() of the reader returned, "NONE" before
    img,                \* ImreadWrapper::img
    canRead,            \* ImreadWrapper::canRead
    names,              \* DirReader::names
    decodable,          \* the directory entries cv::imread can decode
    fileId,             \* DirReader::fileId
    nextImgId,          \* nextImgId of DirReader, VideoCapWrapper, CameraCapWrapper
    readLengthLimit,    \* readLengthLimit member of the reader
    capPos,             \* CAP_PROP_POS_FRAMES of the video session
    vidLen,             \* number of frames the video session can decode
    capFps,             \* CAP_PROP_FPS reported by the session
    lastSeek,           \* cap.set(CAP_PROP_POS_FRAMES) in the last read(): "none", "ok", "refused"
    capReads,           \* cap.read calls made by the read() calls recorded in out
    open,               \* handles and sessions currently open
    out,                \* results of the read() calls so far, in order
    delivered,          \* non-empty frames returned since the last (re)start
    lastFps             \* <<result of the last fps() call>>, <<>> before any

vars == <<pc, loop, initialImageId, readLengthLimitArg, probed, invalidInputs,
          openErrors, thrown, errorsInfo, reader, img, canRead, names, decodable,
          fileId, nextImgId, readLengthLimit, capPos, vidLen, capFps, lastSeek,
          capReads, open, out, delivered, lastFps>>

resolverVars == <<probed, invalidInputs, openErrors, thrown, errorsInfo>>
inputVars == <<loop, initialImageId, readLengthLimitArg>>
imreadVars == <<img, canRead>>
dirVars == <<names, decodable, fileId>>
capVars == <<capPos, vidLen, capFps, lastSeek, capReads>>
historyVars == <<out, delivered, lastFps>>

\* ---- messages -----------------------------------------------------------
MsgImageInvalid == "Can't find the image by"
MsgImageOpen == "Can't open the image from"
MsgDirInvalid == "Can't find the dir by"
MsgDirEmpty == "The dir is empty"
MsgDirNoImage == "Can't read the first image from"
MsgVideoSeek == "Can't set the frame to begin with"
MsgVideoInvalid == "Can't open the video from"
MsgCameraOpen == "Can't open the camera from"
MsgCameraInvalid == "Can't find the camera"

Min(a, b) == IF a < b THEN a ELSE b

Init ==
    /\ pc = "call"
    /\ loop \in BOOLEAN
    /\ initialImageId \in 0..MaxInitialImageId
    /\ readLengthLimitArg \in 0..MaxReadLengthLimit
    /\ probed = <<>>
    /\ invalidInputs = <<>>
    /\ openErrors = <<>>
    /\ thrown = "none"
    /\ errorsInfo = <<>>
    /\ reader = "NONE"
    /\ img = Empty
    /\ canRead = FALSE
    /\ names = <<>>
    /\ decodable = {}
    /\ fileId = 0
    /\ nextImgId = 0
    /\ readLengthLimit = 0
    /\ capPos = 0
    /\ vidLen = 0
    /\ capFps = 0
    /\ lastSeek = "none"
    /\ capReads = 0
    /\ open = {}
    /\ out = <<>>
    /\ delivered = 0
    /\ lastFps = <<>>

\* openImagesCapture without the check of line 236.
CallNoCheck ==
    /\ pc = "call"
    /\ pc' = "image"
    /\ UNCHANGED <<probed, invalidInputs, openErrors, thrown, errorsInfo>>
    /\ UNCHANGED <<inputVars, reader, imreadVars, dirVars, nextImgId,
                   readLengthLimit, capVars, open, historyVars>>

\* openImagesCapture, line 236: the configuration check before any probe.
Call ==
    /\ pc = "call"
    /\ IF readLengthLimitArg = 0
       THEN /\ pc' = "failed"
            /\ thrown' = "config"
       ELSE /\ pc' = "image"
            /\ thrown' = thrown
    /\ UNCHANGED <<probed, invalidInputs, openErrors, errorsInfo>>
    /\ UNCHANGED <<inputVars, reader, imreadVars, dirVars, nextImgId,
                   readLengthLimit, capVars, open, historyVars>>

\* ---- the reader constructors ----------------------------------------------
\* A constructor's outcome: res is "ok", "invalid" (InvalidInput thrown) or
\* "open" (OpenError thrown); open holds the handles it leaves open.

\* ImreadWrapper::ImreadWrapper: good is file.good(), data what cv::imread gives.
ImreadCtor(good, data) ==
    IF ~good THEN [res |-> "invalid", msg |-> MsgImageInvalid, img |-> Empty]
    ELSE IF data = Empty THEN [res |-> "open", msg |-> MsgImageOpen, img |-> Empty]
    ELSE [res |-> "ok", msg |-> "", img |-> data]

\* sort(names.begin(), names.end()) over the entries readdir produced.
RECURSIVE SortNames(_)
SortNames(S) ==
    IF S = {} THEN <<>>
    ELSE LET m == CHOOSE x \in S : \A y \in S : x <= y
         IN <<m>> \o SortNames(S \ {m})

\* CtorScan with the skip test off by one: stops one decodable image early.
RECURSIVE CtorScanStopsEarly(_, _, _, _, _)
CtorScanStopsEarly(nm, dec, k, fid, readImgs) ==
    IF fid < Len(nm)
    THEN IF nm[fid + 1] \in dec
         THEN IF readImgs + 1 >= k
              THEN [found |-> TRUE, fileId |-> fid]
              ELSE CtorScanStopsEarly(nm, dec, k, fid + 1, readImgs + 1)
         ELSE CtorScanStopsEarly(nm, dec, k, fid + 1, readImgs)
    ELSE [found |-> FALSE, fileId |-> fid]

\* The constructor's scan, lines 88-96: stop with fileId at the entry that is
\* decodable image number k (counted from 0), or run off the end.
RECURSIVE CtorScan(_, _, _, _, _)
CtorScan(nm, dec, k, fid, readImgs) ==
    IF fid < Len(nm)
    THEN IF nm[fid + 1] \in dec
         THEN IF (readImgs + 1) - 1 >= k
              THEN [found |-> TRUE, fileId |-> fid]
              ELSE CtorScan(nm, dec, k, fid + 1, readImgs + 1)
         ELSE CtorScan(nm, dec, k, fid + 1, readImgs)
    ELSE [found |-> FALSE, fileId |-> fid]

\* DirReader::DirReader: isDir is opendir's success, entries the listing
\* without "." and "..", dec the entries cv::imread decodes. The handle opendir
\* gives is closed at line 84, before the listing is looked at.
DirCtor(isDir, entries, dec, k) ==
    IF ~isDir
    THEN [res |-> "invalid", msg |-> MsgDirInvalid, names |-> <<>>, fileId |-> 0, open |-> {}]
    ELSE LET afterOpendir == {"dir"}
             afterClosedir == afterOpendir \ {"dir"}
         IN IF entries = {}
            THEN [res |-> "open", msg |-> MsgDirEmpty, names |-> <<>>, fileId |-> 0,
                  open |-> afterClosedir]
            ELSE LET nm == SortNames(entries)
                     sc == CtorScan(nm, dec, k, 0, 0)
                 IN IF sc.found
                    THEN [res |-> "ok", msg |-> "", names |-> nm, fileId |-> sc.fileId,
                          open |-> afterClosedir]
                    ELSE [res |-> "open", msg |-> MsgDirNoImage, names |-> nm,
                          fileId |-> sc.fileId, open |-> afterClosedir]

\* VideoCapWrapper::VideoCapWrapper keeping its session open when the seek to
\* the start frame fails.
VideoCtorLeaksOnSeekFailure(opens, seekOk, k, lim) ==
    IF opens
    THEN IF ~seekOk
         THEN [res |-> "open", msg |-> MsgVideoSeek, capPos |-> 0,
               readLengthLimit |-> lim, open |-> {"video"}]
         ELSE [res |-> "ok", msg |-> "", capPos |-> k,
               readLengthLimit |-> lim, open |-> {"video"}]
    ELSE [res |-> "invalid", msg |-> MsgVideoInvalid, capPos |-> 0,
          readLengthLimit |-> 0, open |-> {}]

\* VideoCapWrapper::VideoCapWrapper: opens is cap.open's result, seekOk that of
\* cap.set(CAP_PROP_POS_FRAMES). The session is a member: a throwing
\* constructor destroys it.
VideoCtor(opens, seekOk, k, lim) ==
    IF opens
    THEN IF ~seekOk
         THEN [res |-> "open", msg |-> MsgVideoSeek, capPos |-> 0,
               readLengthLimit |-> lim, open |-> {}]
         ELSE [res |-> "ok", msg |-> "", capPos |-> k,
               readLengthLimit |-> lim, open |-> {"video"}]
    ELSE [res |-> "invalid", msg |-> MsgVideoInvalid, capPos |-> 0,
          readLengthLimit |-> 0, open |-> {}]

\* CameraCapWrapper::CameraCapWrapper: parses is whether std::stoi accepts the
\* input, opens is cap.open's result.
CameraCtor(parses, opens, lp, lim) ==
    IF ~parses
    THEN [res |-> "invalid", msg |-> MsgCameraInvalid, readLengthLimit |-> 0, open |-> {}]
    ELSE IF opens
    THEN [res |-> "ok", msg |-> "", readLengthLimit |-> IF lp THEN SizeMax ELSE lim,
          open |-> {"camera"}]
    ELSE [res |-> "open", msg |-> MsgCameraOpen, readLengthLimit |-> 0, open |-> {}]

\* ---- openImagesCapture ----------------------------------------------------
\* A try block whose successful constructor is not returned: the next kind is
\* tried all the same.
ProbeKeepsGoing(kind, r, next) ==
    /\ probed' = Append(probed, [kind |-> kind, res |-> r.res])
    /\ invalidInputs' = IF r.res = "invalid" THEN Append(invalidInputs, r.msg)
                        ELSE invalidInputs
    /\ openErrors' = IF r.res = "open" THEN Append(openErrors, r.msg) ELSE openErrors
    /\ pc' = next
    /\ reader' = IF r.res = "ok" THEN kind ELSE reader
    /\ UNCHANGED <<thrown, errorsInfo, inputVars, historyVars>>

\* One try/catch block of lines 238-252: a constructor that succeeds is
\* returned, an InvalidInput or OpenError is recorded and the next kind tried.
Probe(kind, r, next) ==
    /\ probed' = Append(probed, [kind |-> kind, res |-> r.res])
    /\ invalidInputs' = IF r.res = "invalid" THEN Append(invalidInputs, r.msg)
                        ELSE invalidInputs
    /\ openErrors' = IF r.res = "open" THEN Append(openErrors, r.msg) ELSE openErrors
    /\ pc' = IF r.res = "ok" THEN "opened" ELSE next
    /\ reader' = IF r.res = "ok" THEN kind ELSE reader
    /\ UNCHANGED <<thrown, errorsInfo, inputVars, historyVars>>

NewImreadWrapper ==
    /\ pc = "image"
    /\ \E good \in BOOLEAN, data \in Images \cup {Empty} :
         LET r == ImreadCtor(good, data)
         IN /\ Probe("IMAGE", r, "dir")
            /\ img' = IF r.res = "ok" THEN r.img ELSE img
            /\ canRead' = (r.res = "ok")
    /\ UNCHANGED <<dirVars, nextImgId, readLengthLimit, capVars, open>>

NewDirReader ==
    /\ pc = "dir"
    /\ \E isDir \in BOOLEAN, entries \in SUBSET FileNames :
         \E dec \in SUBSET entries :
           LET r == DirCtor(isDir, entries, dec, initialImageId)
           IN /\ Probe("DIR", r, "video")
              /\ IF r.res = "ok"
                 THEN /\ names' = r.names
                      /\ decodable' = dec
                      /\ fileId' = r.fileId
                      /\ nextImgId' = 0
                      /\ readLengthLimit' = readLengthLimitArg
                 ELSE UNCHANGED <<names, decodable, fileId, nextImgId, readLengthLimit>>
              /\ open' = open \cup r.open
    /\ UNCHANGED <<imreadVars, capVars>>

NewVideoCapWrapper ==
    /\ pc = "video"
    /\ \E opens \in BOOLEAN, seekOk \in BOOLEAN, len \in 0..MaxFrames, rate \in Rates :
         LET r == VideoCtor(opens, seekOk, initialImageId, readLengthLimitArg)
         IN /\ Probe("VIDEO", r, "camera")
            /\ IF r.res = "ok"
               THEN /\ capPos' = r.capPos
                    /\ vidLen' = len
                    /\ capFps' = rate
                    /\ nextImgId' = 0
                    /\ readLengthLimit' = r.readLengthLimit
               ELSE UNCHANGED <<capPos, vidLen, capFps, nextImgId, readLengthLimit>>
            /\ open' = open \cup r.open
    /\ UNCHANGED <<imreadVars, dirVars, lastSeek, capReads>>

NewCameraCapWrapper ==
    /\ pc = "camera"
    /\ \E parses \in BOOLEAN, opens \in BOOLEAN, rate \in Rates :
         LET r == CameraCtor(parses, opens, loop, readLengthLimitArg)
         IN /\ Probe("CAMERA", r, "raise")
            /\ IF r.res = "ok"
               THEN /\ capFps' = rate
                    /\ nextImgId' = 0
                    /\ readLengthLimit' = r.readLengthLimit
               ELSE UNCHANGED <<capFps, nextImgId, readLengthLimit>>
            /\ open' = open \cup r.open
    /\ UNCHANGED <<imreadVars, dirVars, capPos, vidLen, lastSeek, capReads>>

\* The aggregate failure carrying both tiers.
ErrorMessagesMixed(invalid, opened) == opened \o invalid

\* The aggregate failure preferring the InvalidInput tier.
ErrorMessagesInvalidFirst(invalid, opened) == IF invalid = <<>> THEN opened ELSE invalid

\* Line 254: the diagnostics the aggregate failure carries.
ErrorMessages(invalid, opened) == IF opened = <<>> THEN invalid ELSE opened

\* Lines 254-259: all four probes failed.
Raise ==
    /\ pc = "raise"
    /\ errorsInfo' = ErrorMessages(invalidInputs, openErrors)
    /\ thrown' = "aggregate"
    /\ pc' = "failed"
    /\ UNCHANGED <<probed, invalidInputs, openErrors>>
    /\ UNCHANGED <<inputVars, reader, imreadVars, dirVars, nextImgId,
                   readLengthLimit, capVars, open, historyVars>>

\* ---- read() ---------------------------------------------------------------
\* A read step's outcome: img is the frame returned (Empty for cv::Mat{}),
\* rewound tells that the call restarted the pass.

\* ImreadWrapper::read never clearing canRead.
ImreadReadStepKeepsReading(lp, can, image) ==
    IF lp THEN [img |-> image, canRead |-> can]
    ELSE IF can THEN [img |-> image, canRead |-> can]
    ELSE [img |-> Empty, canRead |-> can]

\* ImreadWrapper::read.
ImreadReadStep(lp, can, image) ==
    IF lp THEN [img |-> image, canRead |-> can]
    ELSE IF can THEN [img |-> image, canRead |-> FALSE]
    ELSE [img |-> Empty, canRead |-> can]

\* ReadScan counting every entry it passes, decodable or not.
RECURSIVE ReadScanCountsAll(_, _, _, _, _)
ReadScanCountsAll(nm, dec, lim, fid, nid) ==
    IF fid < Len(nm) /\ nid < lim
    THEN IF nm[fid + 1] \in dec
         THEN [found |-> TRUE, img |-> nm[fid + 1], fileId |-> fid + 1, nextImgId |-> nid + 1]
         ELSE ReadScanCountsAll(nm, dec, lim, fid + 1, nid + 1)
    ELSE [found |-> FALSE, img |-> Empty, fileId |-> fid, nextImgId |-> nid]

\* ReadScan without the test of the counter against the limit.
RECURSIVE ReadScanNoLimit(_, _, _, _, _)
ReadScanNoLimit(nm, dec, lim, fid, nid) ==
    IF fid < Len(nm)
    THEN IF nm[fid + 1] \in dec
         THEN [found |-> TRUE, img |-> nm[fid + 1], fileId |-> fid + 1, nextImgId |-> nid + 1]
         ELSE ReadScanNoLimit(nm, dec, lim, fid + 1, nid)
    ELSE [found |-> FALSE, img |-> Empty, fileId |-> fid, nextImgId |-> nid]

\* DirReader::read, lines 107-116: advance to the next decodable entry.
RECURSIVE ReadScan(_, _, _, _, _)
ReadScan(nm, dec, lim, fid, nid) ==
    IF fid < Len(nm) /\ nid < lim
    THEN IF nm[fid + 1] \in dec
         THEN [found |-> TRUE, img |-> nm[fid + 1], fileId |-> fid + 1, nextImgId |-> nid + 1]
         ELSE ReadScan(nm, dec, lim, fid + 1, nid)
    ELSE [found |-> FALSE, img |-> Empty, fileId |-> fid, nextImgId |-> nid]

\* RestartScan without the re-skip of initialImageId images.
RECURSIVE RestartScanNoSkip(_, _, _, _, _)
RestartScanNoSkip(nm, dec, k, fid, readImgs) ==
    IF fid < Len(nm)
    THEN IF nm[fid + 1] \in dec
         THEN [found |-> TRUE, img |-> nm[fid + 1], fileId |-> fid + 1]
         ELSE RestartScanNoSkip(nm, dec, k, fid + 1, readImgs)
    ELSE [found |-> FALSE, img |-> Empty, fileId |-> fid]

\* DirReader::read, lines 119-132: the restart scan of a looping reader.
RECURSIVE RestartScan(_, _, _, _, _)
RestartScan(nm, dec, k, fid, readImgs) ==
    IF fid < Len(nm)
    THEN IF nm[fid + 1] \in dec
         THEN IF (readImgs + 1) - 1 >= k
              THEN [found |-> TRUE, img |-> nm[fid + 1], fileId |-> fid + 1]
              ELSE RestartScan(nm, dec, k, fid + 1, readImgs + 1)
         ELSE RestartScan(nm, dec, k, fid + 1, readImgs)
    ELSE [found |-> FALSE, img |-> Empty, fileId |-> fid]

\* DirReader::read restarting whether or not loop is set.
DirReadStepRestartsAlways(nm, dec, lp, k, lim, fid, nid) ==
    LET first == ReadScan(nm, dec, lim, fid, nid)
    IN IF first.found
       THEN [img |-> first.img, fileId |-> first.fileId, nextImgId |-> first.nextImgId,
             rewound |-> FALSE]
       ELSE LET again == RestartScan(nm, dec, k, 0, 0)
            IN [img |-> again.img, fileId |-> again.fileId,
                nextImgId |-> IF again.found THEN 1 ELSE first.nextImgId,
                rewound |-> TRUE]

\* DirReader::read restarting with the counter at 0.
DirReadStepRestartCountsZero(nm, dec, lp, k, lim, fid, nid) ==
    LET first == ReadScan(nm, dec, lim, fid, nid)
    IN IF first.found
       THEN [img |-> first.img, fileId |-> first.fileId, nextImgId |-> first.nextImgId,
             rewound |-> FALSE]
       ELSE IF lp
       THEN LET again == RestartScan(nm, dec, k, 0, 0)
            IN [img |-> again.img, fileId |-> again.fileId,
                nextImgId |-> IF again.found THEN 0 ELSE first.nextImgId,
                rewound |-> TRUE]
       ELSE [img |-> Empty, fileId |-> first.fileId, nextImgId |-> first.nextImgId,
             rewound |-> FALSE]

\* DirReader::read.
DirReadStep(nm, dec, lp, k, lim, fid, nid) ==
    LET first == ReadScan(nm, dec, lim, fid, nid)
    IN IF first.found
       THEN [img |-> first.img, fileId |-> first.fileId, nextImgId |-> first.nextImgId,
             rewound |-> FALSE]
       ELSE IF lp
       THEN LET again == RestartScan(nm, dec, k, 0, 0)
            IN [img |-> again.img, fileId |-> again.fileId,
                nextImgId |-> IF again.found THEN 1 ELSE first.nextImgId,
                rewound |-> TRUE]
       ELSE [img |-> Empty, fileId |-> first.fileId, nextImgId |-> first.nextImgId,
             rewound |-> FALSE]

\* ++n on a size_t: wraps to 0 after SizeMax.
Inc(n) == IF n = SizeMax THEN 0 ELSE n + 1

\* cv::VideoCapture::read on a session of len frames positioned at pos.
CapRead(pos, len) ==
    IF pos < len THEN [ok |-> TRUE, img |-> pos + 1, pos |-> pos + 1]
    ELSE [ok |-> FALSE, img |-> Empty, pos |-> pos]

\* VideoCapWrapper::read restarting the count without decoding from the start
\* offset: the frame of a restart comes from the current position.
VideoReadStepNoReseek(lp, k, lim, nid, pos, len, seekOk) ==
    IF nid >= lim
    THEN IF lp /\ seekOk
         THEN LET r == CapRead(pos, len)
              IN [img |-> r.img, nextImgId |-> 1, capPos |-> r.pos, rewound |-> TRUE,
                  seek |-> "ok", reads |-> 1]
         ELSE [img |-> Empty, nextImgId |-> nid, capPos |-> pos, rewound |-> FALSE,
               seek |-> IF lp THEN "refused" ELSE "none", reads |-> 0]
    ELSE LET r == CapRead(pos, len)
         IN IF ~r.ok /\ lp /\ seekOk
            THEN LET r2 == CapRead(pos, len)
                 IN [img |-> r2.img, nextImgId |-> 1, capPos |-> r2.pos, rewound |-> TRUE,
                     seek |-> "ok", reads |-> 2]
            ELSE [img |-> r.img, nextImgId |-> Inc(nid), capPos |-> r.pos,
                  rewound |-> FALSE,
                  seek |-> IF ~r.ok /\ lp THEN "refused" ELSE "none", reads |-> 1]

\* VideoCapWrapper::read counting delivered frames: a failed decode that does
\* not restart the pass leaves the counter alone.
VideoReadStepCountsFrames(lp, k, lim, nid, pos, len, seekOk) ==
    IF nid >= lim
    THEN IF lp /\ seekOk
         THEN LET r == CapRead(k, len)
              IN [img |-> r.img, nextImgId |-> 1, capPos |-> r.pos, rewound |-> TRUE,
                  seek |-> "ok", reads |-> 1]
         ELSE [img |-> Empty, nextImgId |-> nid, capPos |-> pos, rewound |-> FALSE,
               seek |-> IF lp THEN "refused" ELSE "none", reads |-> 0]
    ELSE LET r == CapRead(pos, len)
         IN IF ~r.ok /\ lp /\ seekOk
            THEN LET r2 == CapRead(k, len)
                 IN [img |-> r2.img, nextImgId |-> 1, capPos |-> r2.pos, rewound |-> TRUE,
                     seek |-> "ok", reads |-> 2]
            ELSE [img |-> r.img, nextImgId |-> IF r.ok THEN Inc(nid) ELSE nid,
                  capPos |-> r.pos, rewound |-> FALSE,
                  seek |-> IF ~r.ok /\ lp THEN "refused" ELSE "none", reads |-> 1]

\* VideoCapWrapper::read with the limit test off by one.
VideoReadStepLimitOffByOne(lp, k, lim, nid, pos, len, seekOk) ==
    IF nid > lim
    THEN IF lp /\ seekOk
         THEN LET r == CapRead(k, len)
              IN [img |-> r.img, nextImgId |-> 1, capPos |-> r.pos, rewound |-> TRUE,
                  seek |-> "ok", reads |-> 1]
         ELSE [img |-> Empty, nextImgId |-> nid, capPos |-> pos, rewound |-> FALSE,
               seek |-> IF lp THEN "refused" ELSE "none", reads |-> 0]
    ELSE LET r == CapRead(pos, len)
         IN IF ~r.ok /\ lp /\ seekOk
            THEN LET r2 == CapRead(k, len)
                 IN [img |-> r2.img, nextImgId |-> 1, capPos |-> r2.pos, rewound |-> TRUE,
                     seek |-> "ok", reads |-> 2]
            ELSE [img |-> r.img, nextImgId |-> Inc(nid), capPos |-> r.pos,
                  rewound |-> FALSE,
                  seek |-> IF ~r.ok /\ lp THEN "refused" ELSE "none", reads |-> 1]

\* VideoCapWrapper::read; seekOk is the result cap.set gives when it is called
\* (only when loop holds, by the short-circuit &&).
VideoReadStep(lp, k, lim, nid, pos, len, seekOk) ==
    IF nid >= lim
    THEN IF lp /\ seekOk
         THEN LET r == CapRead(k, len)
              IN [img |-> r.img, nextImgId |-> 1, capPos |-> r.pos, rewound |-> TRUE,
                  seek |-> "ok", reads |-> 1]
         ELSE [img |-> Empty, nextImgId |-> nid, capPos |-> pos, rewound |-> FALSE,
               seek |-> IF lp THEN "refused" ELSE "none", reads |-> 0]
    ELSE LET r == CapRead(pos, len)
         IN IF ~r.ok /\ lp /\ seekOk
            THEN LET r2 == CapRead(k, len)
                 IN [img |-> r2.img, nextImgId |-> 1, capPos |-> r2.pos, rewound |-> TRUE,
                     seek |-> "ok", reads |-> 2]
            ELSE [img |-> r.img, nextImgId |-> Inc(nid), capPos |-> r.pos,
                  rewound |-> FALSE,
                  seek |-> IF ~r.ok /\ lp THEN "refused" ELSE "none", reads |-> 1]

\* CameraCapWrapper::read with the limit test off by one.
CameraReadStepOffByOne(lim, nid, captured) ==
    IF nid > lim THEN [img |-> Empty, nextImgId |-> nid, reads |-> 0]
    ELSE IF ~captured THEN [img |-> Thrown, nextImgId |-> nid, reads |-> 1]
    ELSE [img |-> Inc(nid), nextImgId |-> Inc(nid), reads |-> 1]

\* CameraCapWrapper::read taking a failed capture for the end of the stream.
CameraReadStepEndsOnFailure(lim, nid, captured) ==
    IF nid >= lim THEN [img |-> Empty, nextImgId |-> nid, reads |-> 0]
    ELSE IF ~captured THEN [img |-> Empty, nextImgId |-> nid, reads |-> 1]
    ELSE [img |-> Inc(nid), nextImgId |-> Inc(nid), reads |-> 1]

\* CameraCapWrapper::read; captured is cap.read's result.
CameraReadStep(lim, nid, captured) ==
    IF nid >= lim THEN [img |-> Empty, nextImgId |-> nid, reads |-> 0]
    ELSE IF ~captured THEN [img |-> Thrown, nextImgId |-> nid, reads |-> 1]
    ELSE [img |-> Inc(nid), nextImgId |-> Inc(nid), reads |-> 1]

\* Frames returned since the last (re)start, after a step returning image.
Delivered(image, rewound) ==
    (IF rewound THEN 0 ELSE delivered) + (IF image > Empty THEN 1 ELSE 0)

ImreadRead ==
    /\ pc = "opened" /\ reader = "IMAGE" /\ Len(out) < MaxReads
    /\ LET r == ImreadReadStep(loop, canRead, img)
       IN /\ canRead' = r.canRead
          /\ out' = Append(out, r.img)
          /\ delivered' = Delivered(r.img, FALSE)
    /\ UNCHANGED <<pc, resolverVars, inputVars, reader, img, dirVars, nextImgId,
                   readLengthLimit, capVars, open, lastFps>>

DirRead ==
    /\ pc = "opened" /\ reader = "DIR" /\ Len(out) < MaxReads
    /\ LET r == DirReadStep(names, decodable, loop, initialImageId, readLengthLimit,
                            fileId, nextImgId)
       IN /\ fileId' = r.fileId
          /\ nextImgId' = r.nextImgId
          /\ out' = Append(out, r.img)
          /\ delivered' = Delivered(r.img, r.rewound)
    /\ UNCHANGED <<pc, resolverVars, inputVars, reader, imreadVars, names, decodable,
                   readLengthLimit, capVars, open, lastFps>>

VideoRead ==
    /\ pc = "opened" /\ reader = "VIDEO" /\ Len(out) < MaxReads
    /\ \E seekOk \in BOOLEAN :
         LET r == VideoReadStep(loop, initialImageId, readLengthLimit, nextImgId,
                                capPos, vidLen, seekOk)
         IN /\ capPos' = r.capPos
            /\ lastSeek' = r.seek
            /\ capReads' = capReads + r.reads
            /\ nextImgId' = r.nextImgId
            /\ out' = Append(out, r.img)
            /\ delivered' = Delivered(r.img, r.rewound)
    /\ UNCHANGED <<pc, resolverVars, inputVars, reader, imreadVars, dirVars,
                   readLengthLimit, vidLen, capFps, open, lastFps>>

CameraRead ==
    /\ pc = "opened" /\ reader = "CAMERA" /\ Len(out) < MaxReads
    /\ \E captured \in BOOLEAN :
         LET r == CameraReadStep(readLengthLimit, nextImgId, captured)
         IN /\ nextImgId' = r.nextImgId
            /\ capReads' = capReads + r.reads
            /\ out' = Append(out, r.img)
            /\ delivered' = Delivered(r.img, FALSE)
            /\ thrown' = IF r.img = Thrown THEN "capture" ELSE "none"
    /\ UNCHANGED <<pc, probed, invalidInputs, openErrors, errorsInfo, inputVars, reader,
                   imreadVars, dirVars, readLengthLimit, capPos, vidLen, capFps, lastSeek,
                   open, lastFps>>

\* ---- fps() ----------------------------------------------------------------
VideoFps(rate) == rate

CameraFps(rate) == IF rate > 0 THEN rate ELSE DefaultFps

FpsOf(kind, rate) ==
    CASE kind = "IMAGE" -> ImreadFps
      [] kind = "DIR" -> DirFps
      [] kind = "VIDEO" -> VideoFps(rate)
      [] kind = "CAMERA" -> CameraFps(rate)

Fps ==
    /\ pc = "opened"
    /\ lastFps' = <<FpsOf(reader, capFps)>>
    /\ UNCHANGED <<pc, resolverVars, inputVars, reader, imreadVars, dirVars, nextImgId,
                   readLengthLimit, capVars, open, out, delivered>>

Next ==
    \/ Call
    \/ NewImreadWrapper
    \/ NewDirReader
    \/ NewVideoCapWrapper
    \/ NewCameraCapWrapper
    \/ Raise
    \/ ImreadRead
    \/ DirRead
    \/ VideoRead
    \/ CameraRead
    \/ Fps

Spec == Init /\ [][Next]_vars

\* ---- a camera that has been running --------------------------------------
\* The CameraCapWrapper openImagesCapture returned after the other three kinds
\* answered "not this kind", once it has captured n frames without a failure:
\* n = 0, or for a looping reader also n = SizeMax - 2, two captures short of
\* the stored limit. The read() calls before that point are neither in out nor
\* in capReads.
CameraInit ==
    /\ pc = "opened"
    /\ loop \in BOOLEAN
    /\ initialImageId \in 0..MaxInitialImageId
    /\ readLengthLimitArg \in 1..MaxReadLengthLimit
    /\ probed = <<[kind |-> "IMAGE", res |-> "invalid"], [kind |-> "DIR", res |-> "invalid"],
                  [kind |-> "VIDEO", res |-> "invalid"], [kind |-> "CAMERA", res |-> "ok"]>>
    /\ invalidInputs = <<MsgImageInvalid, MsgDirInvalid, MsgVideoInvalid>>
    /\ openErrors = <<>>
    /\ thrown = "none"
    /\ errorsInfo = <<>>
    /\ reader = "CAMERA"
    /\ img = Empty
    /\ canRead = FALSE
    /\ names = <<>>
    /\ decodable = {}
    /\ fileId = 0
    /\ readLengthLimit = CameraCtor(TRUE, TRUE, loop, readLengthLimitArg).readLengthLimit
    /\ nextImgId \in (IF loop THEN {0, SizeMax - 2} ELSE {0})
    /\ capPos = 0
    /\ vidLen = 0
    /\ capFps \in Rates
    /\ lastSeek = "none"
    /\ capReads = 0
    /\ open = CameraCtor(TRUE, TRUE, loop, readLengthLimitArg).open
    /\ out = <<>>
    /\ delivered = nextImgId
    /\ lastFps = <<>>

CameraNext ==
    \/ CameraRead
    \/ Fps

CameraSpec == CameraInit /\ [][CameraNext]_vars

\* ---- what the claims speak of ---------------------------------------------
\* The last result in the read history h.
Last(h) == h[Len(h)]

\* The step is a read() call.
IsRead == Len(out') = Len(out) + 1

\* Decodable image number i (from 0) of the directory in file-name order.
NthDecodable(i) ==
    CHOOSE x \in decodable : Cardinality({y \in decodable : y < x}) = i

\* Frames a non-looping pass of the directory delivers.
PassLength == Min(readLengthLimitArg, Cardinality(decodable) - initialImageId)

\* C1: a non-looping DirReader over N decodable images, started at image k < N
\* with limit L >= 1, returns exactly min(L, N-k) frames, the decodable images
\* k, k+1, ... in file-name order, and Empty on every read() after them.
C1_DirReaderSequence ==
    (reader = "DIR" /\ ~loop /\ readLengthLimitArg >= 1
        /\ initialImageId < Cardinality(decodable))
    => \A i \in 1..Len(out) :
         out[i] = IF i <= PassLength THEN NthDecodable(initialImageId + i - 1) ELSE Empty

\* A non-looping DirReader past an undecodable entry and a non-zero offset has
\* delivered its pass of two or more frames and then returned Empty.
C1_Witness ==
    /\ reader = "DIR" /\ ~loop
    /\ initialImageId >= 1
    /\ decodable # {} /\ \E n \in 1..Len(names) : names[n] \notin decodable
    /\ PassLength >= 2
    /\ Len(out) > PassLength
    /\ Last(out) = Empty

\* C2: a looping DirReader whose pass is exhausted (cursor at the end of the
\* listing, or counter at readLengthLimit) restarts in the next read() at
\* decodable image initialImageId and leaves the counter at 1.
C2_DirReaderRestart ==
    [][(reader = "DIR" /\ loop /\ IsRead
          /\ (fileId = Len(names) \/ nextImgId = readLengthLimit))
       => (Last(out') = NthDecodable(initialImageId) /\ nextImgId' = 1)]_vars

\* A looping DirReader with a non-zero offset has restarted after a pass of two
\* frames cut by the limit.
C2_Witness ==
    /\ reader = "DIR" /\ loop
    /\ initialImageId >= 1
    /\ readLengthLimit = 2 /\ Cardinality(decodable) - initialImageId > 2
    /\ Len(out) = 3
    /\ nextImgId = 1
    /\ Last(out) = NthDecodable(initialImageId)

\* The video read() is about to decode (the counter is below the limit) and the
\* decode fails.
VideoDecodeFails ==
    /\ reader = "VIDEO" /\ IsRead
    /\ nextImgId < readLengthLimit
    /\ ~CapRead(capPos, vidLen).ok

\* The read() resumed the video at its start offset: it decoded from position
\* initialImageId and set the counter to 1.
VideoResumed ==
    /\ nextImgId' = 1
    /\ Last(out') = CapRead(initialImageId, vidLen).img
    /\ capPos' = CapRead(initialImageId, vidLen).pos

PassFirstFrame ==
    CASE reader = "DIR" -> NthDecodable(initialImageId)
      [] reader = "VIDEO" -> CapRead(initialImageId, vidLen).img
      [] OTHER -> 1

\* A read() of a reader that takes a limit, made once readLengthLimit frames
\* have been delivered in the pass.
ReadAtLimit ==
    /\ reader \in {"DIR", "VIDEO", "CAMERA"}
    /\ IsRead
    /\ delivered = readLengthLimitArg

\* C4 as stated: once readLengthLimit frames are delivered in a pass, read()
\* returns no frame unless loop holds, and then returns the first frame of a
\* new pass with the counter at 1, for DirReader, VideoCapWrapper and
\* CameraCapWrapper alike.
C4_LimitThenRewind ==
    [][ReadAtLimit
       => IF loop THEN Last(out') = PassFirstFrame /\ nextImgId' = 1
          ELSE Last(out') = Empty]_vars

\* C4, amended: once readLengthLimit frames are delivered in a pass, read()
\* returns Empty if loop is false. If loop is true a DirReader returns the frame
\* at its initial offset with the counter at 1; a VideoCapWrapper does so if the
\* re-seek is honoured and otherwise returns Empty with its counter unchanged; a
\* CameraCapWrapper has no limit then: it is not rewound, and either captures a
\* frame, its counter going one up, or throws.
C4_LimitThenRewindPerKind ==
    [][ReadAtLimit
       => CASE ~loop -> Last(out') = Empty /\ nextImgId' = nextImgId
            [] loop /\ reader = "DIR" ->
                 Last(out') = PassFirstFrame /\ nextImgId' = 1
            [] loop /\ reader = "VIDEO" ->
                 IF lastSeek' = "ok"
                 THEN Last(out') = PassFirstFrame /\ nextImgId' = 1
                 ELSE Last(out') = Empty /\ nextImgId' = nextImgId
            [] loop /\ reader = "CAMERA" ->
                 \/ Last(out') > Empty /\ nextImgId' = nextImgId + 1
                 \/ Last(out') = Thrown /\ nextImgId' = nextImgId]_vars

\* A looping CameraCapWrapper has delivered one frame more than the configured
\* limit, its counter above the limit.
C4_Witness ==
    /\ reader = "CAMERA" /\ loop
    /\ delivered = readLengthLimitArg + 1
    /\ nextImgId = readLengthLimitArg + 1
    /\ Last(out) > Empty

\* The reader kind a diagnostic comes from, and its tier.
KindOfMsg(m) ==
    CASE m \in {MsgImageInvalid, MsgImageOpen} -> "IMAGE"
      [] m \in {MsgDirInvalid, MsgDirEmpty, MsgDirNoImage} -> "DIR"
      [] m \in {MsgVideoSeek, MsgVideoInvalid} -> "VIDEO"
      [] m \in {MsgCameraOpen, MsgCameraInvalid} -> "CAMERA"

TierOfMsg(m) ==
    IF m \in {MsgImageInvalid, MsgDirInvalid, MsgVideoInvalid, MsgCameraInvalid}
    THEN "invalid" ELSE "open"

\* The kinds, in probe order, whose probe ended with result res.
ProbedWith(res) ==
    LET hit == SelectSeq(probed, LAMBDA p : p.res = res)
    IN [i \in 1..Len(hit) |-> hit[i].kind]

\* The kinds the messages of ms come from, in order.
KindsOfMsgs(ms) == [i \in 1..Len(ms) |-> KindOfMsg(ms[i])]

AllProbesFailed == thrown = "aggregate"

\* The probes run so far follow the fixed order, and all but a last successful
\* one failed with InvalidInput or OpenError.
ProbedInOrder ==
    /\ Len(probed) <= Len(Kinds)
    /\ \A i \in 1..Len(probed) :
         /\ probed[i].kind = Kinds[i]
         /\ i < Len(probed) => probed[i].res \in {"invalid", "open"}

\* C5: with readLengthLimit > 0 openImagesCapture probes still-image, directory,
\* video, camera in that order, a kind only after every earlier kind failed with
\* InvalidInput or OpenError; it returns the reader of the first kind that
\* constructs and probes nothing after it.
C5_ProbeOrder ==
    /\ [](/\ ProbedInOrder
          /\ probed # <<>> => readLengthLimitArg > 0
          /\ pc = "opened" => /\ probed # <<>>
                              /\ Last(probed).res = "ok"
                              /\ reader = Last(probed).kind
          /\ reader # "NONE" => pc = "opened")
    /\ [][probed' # probed
          => /\ pc \notin {"opened", "failed"}
             /\ \A i \in 1..Len(probed) : probed[i].res \in {"invalid", "open"}
             /\ Len(probed') = Len(probed) + 1]_vars

\* The video reader was returned after the still-image and directory probes
\* failed, one in each tier, and the camera was never probed.
C5_Witness ==
    /\ pc = "opened" /\ reader = "VIDEO"
    /\ Len(probed) = 3
    /\ probed[1].res = "open" /\ probed[2].res = "invalid"
    /\ Len(out) >= 1

\* C6: when all four probes fail the failure raised carries, in probe order,
\* exactly the OpenError diagnostics if any probe failed with OpenError and
\* otherwise exactly the InvalidInput diagnostics, never a mix of the tiers.
C6_AggregateTiers ==
    AllProbesFailed
    => LET tier == IF ProbedWith("open") # <<>> THEN "open" ELSE "invalid"
       IN /\ Len(probed) = 4
          /\ KindsOfMsgs(errorsInfo) = ProbedWith(tier)
          /\ \A i \in 1..Len(errorsInfo) : TierOfMsg(errorsInfo[i]) = tier

\* All four probes failed, two with OpenError and two with InvalidInput, and the
\* failure carries the two OpenError diagnostics.
C6_Witness ==
    /\ AllProbesFailed /\ pc = "failed"
    /\ Len(openErrors) = 2 /\ Len(invalidInputs) = 2
    /\ Len(errorsInfo) = 2

\* C7 as stated: when the input is no readable image, directory, video or
\* camera index, the aggregate failure holds a diagnostic for each of the four
\* kinds probed.
C7_DiagnosticPerKind ==
    AllProbesFailed
    => \A k \in 1..Len(Kinds) : \E i \in 1..Len(errorsInfo) : KindOfMsg(errorsInfo[i]) = Kinds[k]

\* C7, amended: when all four probes fail one aggregate failure is raised; it
\* holds a diagnostic for each of the four kinds if no probe failed with
\* OpenError, and otherwise for just the kinds that failed with OpenError.
C7_DiagnosticPerKindOrOpenTier ==
    AllProbesFailed
    => /\ pc = "failed"
       /\ Len(probed) = 4
       /\ IF ProbedWith("open") = <<>>
          THEN KindsOfMsgs(errorsInfo) = Kinds
          ELSE KindsOfMsgs(errorsInfo) = ProbedWith("open")

\* The still image exists but does not decode and the other three probes say
\* "not this kind": the failure carries the one image diagnostic.
C7_Witness ==
    /\ AllProbesFailed
    /\ ProbedWith("open") = <<"IMAGE">>
    /\ errorsInfo = <<MsgImageOpen>>

\* C8: with readLengthLimit = 0 openImagesCapture fails with the configuration
\* error before any probe: no constructor runs, nothing is opened, no reader is
\* returned.
C8_ZeroLimitFailsFirst ==
    readLengthLimitArg = 0
    => /\ probed = <<>>
       /\ open = {}
       /\ reader = "NONE"
       /\ pc \in {"call", "failed"}
       /\ pc = "failed" => thrown = "config"
       /\ errorsInfo = <<>>

\* openImagesCapture has failed on a zero limit, with loop set and a non-zero
\* offset.
C8_Witness ==
    /\ readLengthLimitArg = 0 /\ pc = "failed" /\ thrown = "config"
    /\ loop /\ initialImageId >= 1

\* C9: a non-looping ImreadWrapper returns its image on the first read() and
\* Empty on every later one; a looping one returns its image on every read().
C9_ImreadSequence ==
    reader = "IMAGE"
    => /\ img > Empty
       /\ \A i \in 1..Len(out) : out[i] = IF loop \/ i = 1 THEN img ELSE Empty

\* A non-looping ImreadWrapper has been read three times or more.
C9_Witness ==
    /\ reader = "IMAGE" /\ ~loop /\ Len(out) >= 3
    /\ out[1] = img /\ Last(out) = Empty

\* C10: fps() is strictly positive for every reader kind, whatever rate the
\* video or camera session reports.
C10_FpsPositive ==
    lastFps # <<>> => lastFps[1] > 0

\* C11: CameraCapWrapper::read returns Empty without a capture once the counter
\* has reached the stored limit; below it the call makes exactly one capture: a
\* failed one throws in that call and leaves the counter alone, a successful
\* one returns the frame and moves the counter up by one.
C11_CameraRead ==
    [][(reader = "CAMERA" /\ IsRead)
       => IF nextImgId >= readLengthLimit
          THEN /\ Last(out') = Empty
               /\ capReads' = capReads
               /\ nextImgId' = nextImgId
          ELSE /\ capReads' = capReads + 1
               /\ \/ /\ Last(out') = Thrown
                     /\ thrown' = "capture"
                     /\ nextImgId' = nextImgId
                  \/ /\ Last(out') > Empty
                     /\ thrown' = "none"
                     /\ nextImgId' = nextImgId + 1]_vars

\* A non-looping camera threw on a failed capture, went on to deliver its full
\* count and then returned Empty.
C11_Witness ==
    /\ reader = "CAMERA" /\ ~loop
    /\ readLengthLimit >= 2
    /\ \E i \in 1..Len(out) : out[i] = Thrown /\ \E j \in (i + 1)..Len(out) : out[j] > Empty
    /\ nextImgId = readLengthLimit
    /\ capReads = readLengthLimit + 1
    /\ Last(out) = Empty

\* C12: a looping CameraCapWrapper has no frame limit: its read() never returns
\* Empty, however many frames it has captured before.
C12_CameraLoopUnbounded ==
    [][(reader = "CAMERA" /\ loop /\ IsRead) => Last(out') # Empty]_vars

\* The video read() is about to decode: the counter is below the limit.
VideoReadBelowLimit ==
    /\ reader = "VIDEO" /\ IsRead
    /\ nextImgId < readLengthLimit

\* The read() went on in the pass: it returned what the decode at the current
\* position gave and moved the counter up by one.
VideoAdvanced ==
    /\ nextImgId' = nextImgId + 1
    /\ Last(out') = CapRead(capPos, vidLen).img
    /\ capPos' = CapRead(capPos, vidLen).pos

DirFoundExhausted ==
    LET s == ReadScan(names, decodable, readLengthLimit, fileId, nextImgId)
    IN /\ ~s.found
       /\ s.fileId = Len(names) \/ s.nextImgId = readLengthLimit

\* The read() started a new pass: the count of frames delivered in the pass
\* began again.
PassRestarted ==
    /\ IsRead
    /\ delivered' < delivered + (IF Last(out') > Empty THEN 1 ELSE 0)

\* C14: the cursor fileId of a DirReader stays within 0..number of entries and
\* never decreases within a pass; it is set back only by a read() with loop set
\* that found the pass exhausted, and never when loop is false.
C14_DirCursor ==
    /\ [](reader = "DIR" => (0 <= fileId /\ fileId <= Len(names)))
    /\ [][(reader = "DIR" /\ reader' = "DIR")
          => /\ (fileId' < fileId \/ PassRestarted)
                => (loop /\ IsRead /\ DirFoundExhausted)
             /\ ~PassRestarted => fileId' >= fileId
             /\ ~loop => (~PassRestarted /\ fileId' >= fileId)]_vars

\* A looping DirReader finished a pass of two or more frames and restarted: its
\* cursor is back before the end of the listing, behind where the pass ended.
C14_Witness ==
    /\ reader = "DIR" /\ loop
    /\ PassLength >= 2
    /\ Len(out) = PassLength + 1
    /\ delivered = 1
    /\ fileId < Len(names)
    /\ \E n \in 1..Len(names) : names[n] \notin decodable

\* Decodable entries among the first n of the sorted listing.
DecodableUpTo(n) == Cardinality({j \in 1..n : names[j] \in decodable})

\* A decodable entry lies at or after the cursor.
DecodableAhead == \E j \in (fileId + 1)..Len(names) : names[j] \in decodable

\* C15: a DirReader skips undecodable entries silently: read() returns only
\* decodable entries and never throws; it returns Empty only if loop is false
\* and the counter is at the limit or no decodable entry lies ahead; and the
\* entries counted, for the initialImageId images skipped and for the per-pass
\* counter together, are exactly the decodable ones the cursor has passed.
C15_DirSkipsUndecodable ==
    /\ [](reader = "DIR"
          => /\ \A i \in 1..Len(out) : out[i] = Empty \/ out[i] \in decodable
             /\ thrown = "none"
             /\ DecodableUpTo(fileId) = initialImageId + nextImgId
             /\ delivered = nextImgId)
    /\ [][(reader = "DIR" /\ IsRead /\ Last(out') = Empty)
          => (~loop /\ (nextImgId = readLengthLimit \/ ~DecodableAhead))]_vars

\* A DirReader with a non-zero offset has delivered two frames, the decodable
\* entries on either side of an undecodable one.
C15_Witness ==
    /\ reader = "DIR"
    /\ initialImageId >= 1
    /\ \E a, b, c \in 1..Len(names) :
         /\ a < b /\ b < c
         /\ names[a] \in decodable /\ names[b] \notin decodable /\ names[c] \in decodable
         /\ out = <<names[a], names[c]>>
    /\ nextImgId = 2

\* The session a reader of the given kind owns.
SessionOf(kind) ==
    CASE kind = "VIDEO" -> {"video"}
      [] kind = "CAMERA" -> {"camera"}
      [] OTHER -> {}

C17_DirLoopPeriodic ==
    (reader = "DIR" /\ loop /\ readLengthLimitArg >= 1)
    => /\ PassLength >= 1
       /\ \A i \in 1..Len(out) :
            out[i] = NthDecodable(initialImageId + ((i - 1) % PassLength))

\* A looping DirReader with a non-zero offset and passes of two frames, cut by
\* the limit, is in its third pass.
C17_Witness ==
    /\ reader = "DIR" /\ loop
    /\ initialImageId >= 1
    /\ PassLength = 2 /\ readLengthLimit = 2
    /\ Cardinality(decodable) - initialImageId > 2
    /\ Len(out) >= 5

\* C18: the counter nextImgId of a DirReader or VideoCapWrapper returned by
\* openImagesCapture stays within 0..readLengthLimit, the limit being the
\* positive argument, whatever the read() calls do.
C18_CounterWithinLimit ==
    reader \in {"DIR", "VIDEO"}
    => /\ readLengthLimit = readLengthLimitArg
       /\ readLengthLimit >= 1
       /\ 0 <= nextImgId
       /\ nextImgId <= readLengthLimit

\* A looping video past its end had its re-seek refused until the counter came
\* to the limit, and again there.
C18_Witness ==
    /\ reader = "VIDEO" /\ loop
    /\ readLengthLimit >= 2
    /\ capPos >= vidLen
    /\ nextImgId = readLengthLimit
    /\ Len(out) > readLengthLimit
    /\ lastSeek = "refused"
    /\ Last(out) = Empty

\* Non-empty frames among the read() results so far.
FramesReturned == Cardinality({i \in 1..Len(out) : out[i] > Empty})

\* C19: a non-looping VideoCapWrapper counts decode attempts: each of its first
\* readLengthLimit read() calls makes one decode and moves the counter up,
\* frame or no frame; so at most readLengthLimit decodes are made, at most
\* readLengthLimit frames returned, and every later read() returns Empty without
\* touching the session.
C19_VideoCountsAttempts ==
    /\ []((reader = "VIDEO" /\ ~loop)
          => /\ nextImgId = Min(Len(out), readLengthLimit)
             /\ capReads = Min(Len(out), readLengthLimit)
             /\ FramesReturned <= readLengthLimit
             /\ \A i \in 1..Len(out) : i > readLengthLimit => out[i] = Empty
             /\ lastSeek = "none")
    /\ [][(reader = "VIDEO" /\ ~loop /\ IsRead /\ Len(out) >= readLengthLimit)
          => (Last(out') = Empty /\ UNCHANGED <<capPos, capReads, lastSeek, nextImgId>>)]_vars

\* A non-looping video shorter than the limit: a decode failed and was counted,
\* the limit was reached with fewer frames than it allows, and a read() after
\* that returned Empty.
C19_Witness ==
    /\ reader = "VIDEO" /\ ~loop
    /\ readLengthLimit >= 2
    /\ vidLen > initialImageId
    /\ Len(out) > readLengthLimit
    /\ nextImgId = readLengthLimit
    /\ capReads = readLengthLimit
    /\ FramesReturned >= 1 /\ FramesReturned < readLengthLimit

====
